---- MODULE Spec2Model ----
(***************************************************************************)
(* whisper_marko.py: load a speech-recognition model, transcribe one audio *)
(* file in a worker thread under a bounded wait, write the text to         *)
(* outputfile.txt.  One process runs main() once; the output file is the   *)
(* only state that survives from one process to the next.                  *)
(***************************************************************************)
EXTENDS Integers, Sequences, FiniteSets, TLC

\* ---------------------------------------------------------------- bounds
MaxLen == 2        \* longest transcript text, in characters
MaxRuns == 2       \* processes run one after the other on the same directory
MaxTime == 4       \* the clock stops being observed after this many ticks
Margin == 1        \* scheduling overhead granted after the deadline, in ticks

\* the default of `timeout: int = 300`, in ticks of 150 seconds
Timeout == 2

\* ---------------------------------------------------------------- values
Chars == {"a", "LF"}
Texts == UNION {[1..n -> Chars] : n \in 0..MaxLen}

\* engine.transcribe(path) -> {"text": string, ...}; a mapping may lack "text"
Results == [text : Texts] \cup {[language |-> "en"]}
NoResult == [none |-> TRUE]

ValidAudio == {"a.wav", "b.wav"}
Audios == ValidAudio \cup {"missing.wav"}

Engine == "engine"
NoModel == "NoModel"

\* an exception object: its class and the operation that raised it
NoExc == [cls |-> "None", origin |-> "None"]
Exc(c, o) == [cls |-> c, origin |-> o]
\* classes the worker's call can raise; concurrent.futures.TimeoutError is the
\* class `except TimeoutError` names, whoever raised the instance
WorkerErrorClasses == {"TimeoutError", "RuntimeError"}

Info(m) == [level |-> "INFO", msg |-> m]
Error(m) == [level |-> "ERROR", msg |-> m]

Absent == [exists |-> FALSE, content |-> <<>>]
File(c) == [exists |-> TRUE, content |-> c]
\* what the working directory may hold before the first run
Stale == <<"o">>
Files == {Absent, File(<<>>), File(Stale)}

VARIABLES
  pc,          \* where main() is
  run,         \* which process this is, 1..MaxRuns
  model,       \* main's `model`
  audio,       \* main's `audio_path`
  result,      \* the value future.result() gave transcribe_audio
  exc,         \* the exception being propagated, NoExc when none
  pool,        \* the ThreadPoolExecutor of the current call
  worker,      \* the pool's thread: "none", "running", "done"
  workerOut,   \* what the worker's call returned or raised
  spawned,     \* threads started by the current process
  elapsed,     \* ticks since executor.submit
  file,        \* outputfile.txt
  log,         \* the process's log stream
  engine,      \* what model.transcribe computes for each audio file
  fileBefore,  \* outputfile.txt when the process started
  failed,      \* the underlying operation that failed in this process
  saved        \* the successful runs so far: audio and file content

vars == <<pc, run, model, audio, result, exc, pool, worker, workerOut, spawned,
          elapsed, file, log, engine, fileBefore, failed, saved>>

\* ---------------------------------------------------------------- helpers
Logged(m) == \E i \in DOMAIN log : log[i].msg = m
Last(s) == s[Len(s)]
Count(m) == Cardinality({i \in DOMAIN log : log[i].msg = m})
Prefix(s, k) == [i \in 1..(IF k < Len(s) THEN k ELSE Len(s)) |-> s[i]]

RECURSIVE Flatten(_)
Flatten(ss) == IF ss = <<>> THEN <<>> ELSE Head(ss) \o Flatten(Tail(ss))

\* ---------------------------------------------------------------- load_model
load_model_swallow(ok) ==
  IF ok THEN [ret |-> Engine, exc |-> NoExc,
              logs |-> <<Info("model_loaded"), Info("load_time")>>]
        ELSE [ret |-> NoModel, exc |-> NoExc, logs |-> <<Error("load_failed")>>]

\* ok: whether whisper.load_model(model_name) returned
load_model(ok) ==
  IF ok THEN [ret |-> Engine, exc |-> NoExc,
              logs |-> <<Info("model_loaded"), Info("load_time")>>]
        ELSE [ret |-> NoModel, exc |-> Exc("Exception", "load"),
              logs |-> <<Error("load_failed")>>]

\* ---------------------------------------------------------------- transcribe_audio
ShutdownNoWait(w) == TRUE

\* `with ThreadPoolExecutor()` leaves through shutdown(wait=True), which joins
\* the pool's thread
ShutdownMayReturn(w) == w # "running"

HandlerNoAlias(e) ==
  IF e.cls = "TimeoutError" /\ e.origin = "wait" THEN Error("timed_out")
  ELSE Error("transcription_failed")

\* the except clause that takes exception e: chosen by class alone
Handler(e) ==
  IF e.cls = "TimeoutError" THEN Error("timed_out")
  ELSE Error("transcription_failed")

transcribe_audio_swallow(e) ==
  IF e = NoExc THEN [exc |-> NoExc, logs |-> <<Info("transcribe_time")>>]
  ELSE [exc |-> NoExc, logs |-> <<Handler(e)>>]

\* what follows the with block: the handlers, or the timing line and return
transcribe_audio_exit(e) ==
  IF e = NoExc THEN [exc |-> NoExc, logs |-> <<Info("transcribe_time")>>]
  ELSE [exc |-> e, logs |-> <<Handler(e)>>]

\* ---------------------------------------------------------------- save_transcription
\* os.linesep: open(..., 'w') writes each "\n" as this (POSIX)
linesep == <<"LF">>

TextWriteLn(s) ==
  Flatten([i \in DOMAIN s |-> IF s[i] = "LF" THEN linesep ELSE <<s[i]>>]) \o linesep

\* the text layer of file.write(s)
TextWrite(s) == Flatten([i \in DOMAIN s |-> IF s[i] = "LF" THEN linesep ELSE <<s[i]>>])

OpenForAppend(f) == [exists |-> TRUE, content |-> f.content]

\* open(output_file, 'w'): create or truncate
OpenForWrite(f) == [exists |-> TRUE, content |-> <<>>]

SaveOutcomes == {"ok", "open_fails", "write_fails"}

\* out: how the file system answers; k: characters that reached the file
\* before a failing write
save_transcription(res, f, out, k) ==
  IF out = "open_fails"
    THEN [file |-> f, exc |-> Exc("OSError", "open"), logs |-> <<Error("save_failed")>>]
  ELSE LET opened == OpenForWrite(f) IN
    IF "text" \notin DOMAIN res
      THEN [file |-> opened, exc |-> Exc("KeyError", "text"),
            logs |-> <<Error("save_failed")>>]
    ELSE LET data == TextWrite(res.text) IN
      IF out = "write_fails"
        THEN [file |-> [opened EXCEPT !.content = @ \o Prefix(data, k)],
              exc |-> Exc("OSError", "write"), logs |-> <<Error("save_failed")>>]
        ELSE [file |-> [opened EXCEPT !.content = @ \o data],
              exc |-> NoExc, logs |-> <<Info("saved")>>]

\* ---------------------------------------------------------------- main
IsFileAlways(p) == TRUE

\* Path(audio_path).is_file()
IsFile(p) == p \in ValidAudio

CatchesOnlyOSError(e) == e.cls = "OSError"

\* `except Exception`: every class raised here derives from Exception
Catches(e) == e.cls \in {"Exception", "TimeoutError", "RuntimeError", "OSError", "KeyError"}

RunnerPcs == {"wait", "exit"}

Init ==
  /\ pc = "load"
  /\ run = 1
  /\ model = NoModel
  /\ audio = "none"
  /\ result = NoResult
  /\ exc = NoExc
  /\ pool = "none"
  /\ worker = "none"
  /\ workerOut = NoResult
  /\ spawned = 0
  /\ elapsed = 0
  /\ file \in Files
  /\ log = <<>>
  /\ engine \in [ValidAudio -> Results]
  /\ fileBefore = file
  /\ failed = "none"
  /\ saved = <<>>

\* main, line 81: model = load_model("medium")
LoadModel ==
  /\ pc = "load"
  /\ \E ok \in BOOLEAN :
       LET r == load_model(ok) IN
         /\ log' = log \o r.logs
         /\ failed' = IF ok THEN failed ELSE "load"
         /\ IF r.exc = NoExc
              THEN /\ model' = r.ret
                   /\ pc' = "input"
                   /\ exc' = exc
              ELSE /\ model' = model
                   /\ pc' = "raised"
                   /\ exc' = r.exc
  /\ UNCHANGED <<run, audio, result, pool, worker, workerOut, spawned, elapsed,
                 file, engine, fileBefore, saved>>

\* main, lines 83-86: read the path, check it, return early when it is no file
InputAudio ==
  /\ pc = "input"
  /\ \E p \in Audios :
       /\ audio' = p
       /\ IF IsFile(p)
            THEN /\ pc' = "submit"
                 /\ UNCHANGED <<log, failed>>
            ELSE /\ pc' = "done"
                 /\ log' = Append(log, Error("missing_audio"))
                 /\ failed' = "missing"
  /\ UNCHANGED <<run, model, result, exc, pool, worker, workerOut, spawned,
                 elapsed, file, engine, fileBefore, saved>>

\* transcribe_audio, lines 44-45: open the pool, submit model.transcribe
Submit ==
  /\ pc = "submit"
  /\ pool' = "open"
  /\ worker' = "running"
  /\ spawned' = spawned + 1
  /\ elapsed' = 0
  /\ pc' = "wait"
  /\ UNCHANGED <<run, model, audio, result, exc, workerOut, file, log, engine,
                 fileBefore, failed, saved>>

\* the worker thread: model.transcribe(audio_path) returns or raises, whenever
WorkerFinish ==
  /\ worker = "running"
  /\ \E out \in {engine[audio]} \cup {Exc(c, "worker") : c \in WorkerErrorClasses} :
       workerOut' = out
  /\ worker' = "done"
  /\ UNCHANGED <<pc, run, model, audio, result, exc, pool, spawned, elapsed,
                 file, log, engine, fileBefore, failed, saved>>

\* wall-clock time passes while the worker runs and the caller is blocked: in
\* future.result(timeout), which does not sleep past its deadline, or in the
\* pool's shutdown
Tick ==
  /\ worker = "running"
  /\ elapsed < MaxTime
  /\ \/ pc = "wait" /\ elapsed < Timeout
     \/ pc = "exit" /\ ~ShutdownMayReturn(worker)
  /\ elapsed' = elapsed + 1
  /\ UNCHANGED <<pc, run, model, audio, result, exc, pool, worker, workerOut,
                 spawned, file, log, engine, fileBefore, failed, saved>>

\* line 46-47: future.result() hands over what the worker returned or raised
WaitReturn ==
  /\ pc = "wait"
  /\ worker = "done"
  /\ IF workerOut \in Results
       THEN /\ result' = workerOut
            /\ log' = Append(log, Info("transcribed"))
            /\ UNCHANGED <<exc, failed>>
       ELSE /\ exc' = workerOut
            /\ failed' = "transcription"
            /\ UNCHANGED <<result, log>>
  /\ pc' = "exit"
  /\ UNCHANGED <<run, model, audio, pool, worker, workerOut, spawned, elapsed,
                 file, engine, fileBefore, saved>>

\* line 46: future.result(timeout=timeout) raises TimeoutError at the deadline
WaitTimeout ==
  /\ pc = "wait"
  /\ worker = "running"
  /\ elapsed >= Timeout
  /\ exc' = Exc("TimeoutError", "wait")
  /\ failed' = "timeout"
  /\ pc' = "exit"
  /\ UNCHANGED <<run, model, audio, result, pool, worker, workerOut, spawned,
                 elapsed, file, log, engine, fileBefore, saved>>

\* lines 44, 48-56: the with block is left, then the handlers or the return
ExitPool ==
  /\ pc = "exit"
  /\ ShutdownMayReturn(worker)
  /\ pool' = "shutdown"
  /\ LET r == transcribe_audio_exit(exc) IN
       /\ log' = log \o r.logs
       /\ exc' = r.exc
       /\ pc' = IF r.exc = NoExc THEN "save" ELSE "raised"
  /\ UNCHANGED <<run, model, audio, result, worker, workerOut, spawned, elapsed,
                 file, engine, fileBefore, failed, saved>>

\* main, lines 90-91: save_transcription(result, "outputfile.txt")
SaveTranscription ==
  /\ pc = "save"
  /\ \E out \in SaveOutcomes :
     \E k \in 0..(MaxLen * Len(linesep)) :
       LET r == save_transcription(result, file, out, k) IN
         /\ file' = r.file
         /\ log' = log \o r.logs
         /\ exc' = r.exc
         /\ IF r.exc = NoExc
              THEN /\ pc' = "done"
                   /\ saved' = Append(saved, [audio |-> audio, content |-> r.file.content])
                   /\ failed' = failed
              ELSE /\ pc' = "raised"
                   /\ saved' = saved
                   /\ failed' = "write"
  /\ UNCHANGED <<run, model, audio, result, pool, worker, workerOut, spawned,
                 elapsed, engine, fileBefore>>

\* main, lines 93-94: the outermost handler
MainExcept ==
  /\ pc = "raised"
  /\ IF Catches(exc)
       THEN /\ log' = Append(log, Error("main_error"))
            /\ pc' = "done"
            /\ exc' = NoExc
       ELSE /\ pc' = "escaped"
            /\ UNCHANGED <<log, exc>>
  /\ UNCHANGED <<run, model, audio, result, pool, worker, workerOut, spawned,
                 elapsed, file, engine, fileBefore, failed, saved>>

\* lines 97-98: the program is started again in the same directory
Restart ==
  /\ pc = "done"
  /\ run < MaxRuns
  /\ run' = run + 1
  /\ pc' = "load"
  /\ model' = NoModel
  /\ audio' = "none"
  /\ result' = NoResult
  /\ exc' = NoExc
  /\ pool' = "none"
  /\ worker' = "none"
  /\ workerOut' = NoResult
  /\ spawned' = 0
  /\ elapsed' = 0
  /\ log' = <<>>
  /\ fileBefore' = file
  /\ failed' = "none"
  /\ UNCHANGED <<file, engine, saved>>

Next ==
  \/ LoadModel
  \/ InputAudio
  \/ Submit
  \/ WorkerFinish
  \/ Tick
  \/ WaitReturn
  \/ WaitTimeout
  \/ ExitPool
  \/ SaveTranscription
  \/ MainExcept
  \/ Restart

Spec == Init /\ [][Next]_vars

TypeOK ==
  /\ pc \in {"load", "input", "submit", "wait", "exit", "save", "raised", "done", "escaped"}
  /\ run \in 1..MaxRuns
  /\ file \in Files \cup {File(c) : c \in Texts}
  /\ elapsed \in 0..MaxTime
  /\ worker \in {"none", "running", "done"}

ComponentFailures == {"load", "timeout", "transcription", "write"}

\* ---------------------------------------------------------------- claims

\* C1: once the deadline has passed with the worker unfinished, the caller is
\* out of transcribe_audio within Margin ticks, whether or not the worker ends.
C1_ReturnsWithinMargin ==
  pc \in RunnerPcs => elapsed <= Timeout + Margin

\* C2: the Runner is entered only with the engine load_model returned, and the
\* Writer only after the Runner's wait gave a result and the call returned;
\* nothing is written after a load failure, a timeout or a transcription failure.
C2_StrictSequence ==
  /\ (pc \in {"submit", "save"} \cup RunnerPcs \/ worker # "none")
       => model = Engine /\ Logged("model_loaded")
  /\ (pc = "save" \/ Logged("saved") \/ Logged("save_failed") \/ file # fileBefore)
       => /\ result \in Results
          /\ Logged("transcribed") /\ Logged("transcribe_time")
          /\ pool = "shutdown"
          /\ failed \in {"none", "write"}

C2_Witness == pc = "done" /\ Logged("saved") /\ file # fileBefore

\* C3: after any failure of a run the output file is what it was before the run.
C3_FailureLeavesFileStale ==
  failed # "none" => file = fileBefore

\* C4: with an audio path that is no existing file, main has logged the missing
\* file and returned without raising, after the load; no worker, no write.
C4_MissingAudio ==
  (audio # "none" /\ audio \notin ValidAudio)
    => /\ pc = "done" /\ exc = NoExc
       /\ model = Engine
       /\ Last(log) = Error("missing_audio") /\ ~Logged("main_error")
       /\ spawned = 0 /\ worker = "none" /\ pool = "none"
       /\ ~Logged("saved") /\ ~Logged("save_failed")
       /\ file = fileBefore

C4_Witness == audio = "missing.wav" /\ pc = "done" /\ file = File(Stale)

\* C5: a failure raised by the Loader, Runner or Writer never escapes main; once
\* main is over it has logged exactly one line of its own, the last one, and no
\* step after the failing one has run.
C5_MainSwallows ==
  /\ pc # "escaped"
  /\ (pc = "done" /\ failed \in ComponentFailures)
       => /\ exc = NoExc
          /\ Count("main_error") = 1 /\ Last(log) = Error("main_error")
          /\ failed = "load" => model = NoModel /\ audio = "none" /\ spawned = 0
          /\ failed \in {"load", "timeout", "transcription"}
               => ~Logged("saved") /\ ~Logged("save_failed") /\ file = fileBefore
          /\ failed = "write" => ~Logged("saved")

C5_Witness == pc = "done" /\ failed = "timeout" /\ Logged("main_error")

C7_Idempotent ==
  \A i, j \in DOMAIN saved :
    saved[i].audio = saved[j].audio => saved[i].content = saved[j].content

C7_Witness ==
  /\ Len(saved) = 2 /\ saved[1].audio = saved[2].audio
  /\ Len(saved[2].content) = MaxLen /\ pc = "done"

\* C8: a timeout is logged only when the wait lasted the whole timeout with
\* the worker unfinished; an error of the worker is logged as a transcription
\* failure.
C8_TimeoutOnlyAtDeadline ==
  /\ Logged("timed_out") => failed = "timeout" /\ elapsed >= Timeout
  /\ (failed = "transcription" /\ pc \in {"raised", "done"})
       => Logged("transcription_failed")

\* C9: a component whose operation failed has logged an ERROR and raised to
\* main, and has not returned; load_model returns the engine or raises.
C9_LogAndReraise ==
  /\ (pc # "load" /\ failed # "load") => model = Engine
  /\ failed = "load"
       => /\ Error("load_failed") = log[1] /\ model = NoModel
          /\ pc \in {"raised", "done"} /\ ~Logged("model_loaded")
  /\ (failed \in {"timeout", "transcription"} /\ pc \notin RunnerPcs)
       => /\ \E i \in DOMAIN log :
               log[i] \in {Error("timed_out"), Error("transcription_failed")}
          /\ pc \in {"raised", "done"} /\ ~Logged("transcribe_time")
  /\ failed = "write"
       => /\ \E i \in DOMAIN log : log[i] = Error("save_failed")
          /\ pc \in {"raised", "done"} /\ ~Logged("saved")
  /\ failed \in ComponentFailures
       => /\ pc = "raised" => exc # NoExc
          /\ pc = "done" => Logged("main_error")

C9_Witness == pc = "raised" /\ failed = "write" /\ exc.origin = "write"

\* C10: a call starts one worker in a pool of its own, and when the call has
\* given control back the pool is shut down and its worker has ended.
C10_PoolScoped ==
  /\ spawned <= 1
  /\ pc \in RunnerPcs => spawned = 1 /\ pool = "open" /\ worker # "none"
  /\ pc \notin RunnerPcs => pool # "open" /\ worker # "running"
  /\ pc \in {"save", "raised", "done"} /\ spawned = 1
       => pool = "shutdown" /\ worker = "done"

C10_Witness ==
  /\ pc = "raised" /\ failed = "timeout" /\ worker = "done"
  /\ elapsed > Timeout + Margin
====
